---- MODULE Spec2Model ----
(***************************************************************************)
(* A model of the DHCP option codec of src/src/option.rs:                  *)
(* DhcpOption::serialize (option -> bytes) and DhcpOption::deserialize     *)
(* (bytes -> option + remaining bytes, or ParsingError, or a panic of the  *)
(* slice primitives), driven by a caller that encodes options, appends     *)
(* bytes, and walks a buffer by calling deserialize on each remainder.     *)
(*                                                                         *)
(* Representation of values:                                               *)
(*   byte                 a number in 0..255                               *)
(*   Ipv4Addr             <<a, b, c, d>>, its four octets                  *)
(*   u8, u16              a number                                         *)
(*   u32                  <<hi, lo>>, its two 16-bit halves (the value is  *)
(*                        hi * 65536 + lo); the checker's integers are     *)
(*                        32-bit signed and cannot hold 2^32 - 1           *)
(*   bool                 BOOLEAN                                          *)
(*   String               the sequence of its UTF-8 bytes                  *)
(*   Vec<T>               a sequence                                       *)
(*   DhcpOption           [code |-> option code, val |-> payload]          *)
(***************************************************************************)
EXTENDS Integers, Sequences, FiniteSets, TLC

\* ------------------------------------------------------------------------
\* Bounds of the model
\* ------------------------------------------------------------------------
MaxOpts == 2      \* options a caller encodes into one buffer
MaxList == 2      \* entries of the short lists a caller encodes
MaxText == 2      \* bytes of the short strings and blobs a caller encodes
MaxLenByte == 9   \* largest small length byte of a received raw buffer
MaxTrail == 2     \* bytes of the short trailers a caller appends

\* u8 has 2^8 values: `x as u8` keeps x modulo U8Mod.
U8Mod == 256

\* ------------------------------------------------------------------------
\* Bytes and slices
\* ------------------------------------------------------------------------
Byte == 0..(U8Mod - 1)

\* Variant of AsU8 that keeps the value: a conversion without truncation.
AsU8Lossless(n) == n

AsU8(n) == n % U8Mod

\* [first, first + step, ...] of length n, each byte modulo 256.
Pattern(first, step, n) == [i \in 1..n |-> (first + step * (i - 1)) % U8Mod]

\* ss[lo] \o ... \o ss[hi], halving the range to keep the recursion shallow.
RECURSIVE ConcatRange(_, _, _)
ConcatRange(ss, lo, hi) ==
    IF lo > hi THEN <<>>
    ELSE IF lo = hi THEN ss[lo]
    ELSE LET mid == (lo + hi) \div 2
         IN  ConcatRange(ss, lo, mid) \o ConcatRange(ss, mid + 1, hi)

Concat(ss) == ConcatRange(ss, 1, Len(ss))

\* slice::chunks_exact(k): the consecutive k-byte chunks; a remainder of
\* fewer than k bytes is left out.
ChunksExact(s, k) == [j \in 1..(Len(s) \div k) |-> SubSeq(s, (j - 1) * k + 1, j * k)]

\* slice[mid..]
DropFirst(s, mid) == SubSeq(s, mid + 1, Len(s))

\* ------------------------------------------------------------------------
\* Option codes by payload family
\* ------------------------------------------------------------------------
AddressCodes == {1, 16, 28, 32, 50}
U32Codes == {2, 24, 35, 38, 51}
U16Codes == {13, 22, 26}
U8Codes == {23, 37}
BoolCodes == {19, 20, 27, 29, 30, 31, 34, 36, 39}
AddressListCodes == (3..11) \cup {41, 42, 44, 45, 48, 49, 65} \cup (68..76)
PairListCodes == {21, 33}
StringCodes == {12, 14, 15, 17, 18, 40, 64}
BlobCodes == {43, 47}
MtuTableCode == 25
NodeTypeCode == 46

SupportedCodes ==
    {0, 255} \cup AddressCodes \cup U32Codes \cup U16Codes \cup U8Codes
    \cup BoolCodes \cup AddressListCodes \cup PairListCodes \cup StringCodes
    \cup BlobCodes \cup {MtuTableCode, NodeTypeCode}

NetBiosOverTcpIpNodeType == {"BNode", "PNode", "MNode", "HNode"}

DhcpOption(code, val) == [code |-> code, val |-> val]

Pad == DhcpOption(0, <<>>)
End == DhcpOption(255, <<>>)

\* ------------------------------------------------------------------------
\* serialize
\* ------------------------------------------------------------------------
\* (x >> 24) & 0xFF, (x >> 16) & 0xFF, (x >> 8) & 0xFF, x & 0xFF
U32ToBytes(x) == <<x[1] \div 256, x[1] % 256, x[2] \div 256, x[2] % 256>>

\* (x >> 8) & 0xFF, x & 0xFF
U16ToBytes(x) == <<(x \div 256) % 256, x % 256>>

NodeTypeToByte(n) ==
    CASE n = "BNode" -> 1
      [] n = "PNode" -> 2
      [] n = "MNode" -> 4
      [] n = "HNode" -> 8

\* The four octets of the first address, then those of the second.
PairToBytes(p) == p[1] \o p[2]

SerializeValue(option) ==
    LET c == option.code
        v == option.val
    IN  CASE c \in AddressCodes -> v
          [] c \in U32Codes -> U32ToBytes(v)
          [] c \in U16Codes -> U16ToBytes(v)
          [] c \in U8Codes -> <<v>>
          [] c \in BoolCodes -> <<IF v THEN 1 ELSE 0>>
          [] c \in AddressListCodes -> Concat(v)
          [] c \in PairListCodes -> Concat([i \in 1..Len(v) |-> PairToBytes(v[i])])
          [] c \in StringCodes -> v
          [] c \in BlobCodes -> v
          [] c = MtuTableCode -> Concat([i \in 1..Len(v) |-> U16ToBytes(v[i])])
          [] c = NodeTypeCode -> <<NodeTypeToByte(v)>>

\* Variant of SerializeLength that writes the number of entries of a list
\* instead of the number of its bytes.
SerializeLengthEntries(option) ==
    LET c == option.code
        v == option.val
    IN  CASE c \in AddressCodes \cup U32Codes -> 4
          [] c \in U16Codes -> 2
          [] c \in U8Codes \cup BoolCodes \cup {NodeTypeCode} -> 1
          [] OTHER -> AsU8(Len(v))

\* The length byte pushed after the code: a literal for the fixed-size
\* options, `(len * k) as u8` for the lists, `len as u8` for strings and
\* blobs.
SerializeLength(option) ==
    LET c == option.code
        v == option.val
    IN  CASE c \in AddressCodes \cup U32Codes -> 4
          [] c \in U16Codes -> 2
          [] c \in U8Codes \cup BoolCodes \cup {NodeTypeCode} -> 1
          [] c \in AddressListCodes -> AsU8(Len(v) * 4)
          [] c \in PairListCodes -> AsU8(Len(v) * 8)
          [] c = MtuTableCode -> AsU8(Len(v) * 2)
          [] c \in StringCodes \cup BlobCodes -> AsU8(Len(v))

\* Variant of serialize that writes only as many value bytes as the length
\* byte states.
serializeTruncated(option) ==
    CASE option.code = 0 -> <<0>>
      [] option.code = 255 -> <<255>>
      [] OTHER -> <<option.code, SerializeLength(option)>>
                  \o SubSeq(SerializeValue(option), 1, SerializeLength(option))

serialize(option) ==
    CASE option.code = 0 -> <<0>>
      [] option.code = 255 -> <<255>>
      [] OTHER -> <<option.code, SerializeLength(option)>> \o SerializeValue(option)

\* ------------------------------------------------------------------------
\* UTF-8 (std::str::from_utf8 and String::from_utf8_lossy)
\* ------------------------------------------------------------------------
\* The byte at position i, or 0 past the end.
SafeGet(s, i) == IF i <= Len(s) THEN s[i] ELSE 0

IsCont(b) == b \in 128..191

Utf8CharWidth(b) ==
    CASE b < 128 -> 1
      [] b \in 194..223 -> 2
      [] b \in 224..239 -> 3
      [] b \in 240..244 -> 4
      [] OTHER -> 0

\* Second byte allowed after the lead byte of a 3- or 4-byte sequence.
SecondOk(lead, b) ==
    CASE lead = 224 -> b \in 160..191
      [] lead \in 225..236 -> b \in 128..191
      [] lead = 237 -> b \in 128..159
      [] lead \in 238..239 -> b \in 128..191
      [] lead = 240 -> b \in 144..191
      [] lead \in 241..243 -> b \in 128..191
      [] lead = 244 -> b \in 128..143
      [] OTHER -> FALSE

\* The scalar starting at position i: whether it is well formed, and the
\* number of bytes it spans (for an ill-formed one, the bytes that one
\* replacement character stands for).
Utf8Chunk(s, i) ==
    LET b == s[i]
        w == Utf8CharWidth(b)
    IN  CASE w = 1 -> [valid |-> TRUE, n |-> 1]
          [] w = 2 -> IF IsCont(SafeGet(s, i + 1))
                      THEN [valid |-> TRUE, n |-> 2]
                      ELSE [valid |-> FALSE, n |-> 1]
          [] w = 3 -> IF ~SecondOk(b, SafeGet(s, i + 1))
                      THEN [valid |-> FALSE, n |-> 1]
                      ELSE IF ~IsCont(SafeGet(s, i + 2))
                      THEN [valid |-> FALSE, n |-> 2]
                      ELSE [valid |-> TRUE, n |-> 3]
          [] w = 4 -> IF ~SecondOk(b, SafeGet(s, i + 1))
                      THEN [valid |-> FALSE, n |-> 1]
                      ELSE IF ~IsCont(SafeGet(s, i + 2))
                      THEN [valid |-> FALSE, n |-> 2]
                      ELSE IF ~IsCont(SafeGet(s, i + 3))
                      THEN [valid |-> FALSE, n |-> 3]
                      ELSE [valid |-> TRUE, n |-> 4]
          [] OTHER -> [valid |-> FALSE, n |-> 1]

\* Position i lies inside the scalar that starts at an earlier lead byte.
\* A scalar spans, after its lead byte, only continuation bytes (128..191),
\* and a lead byte is never one of those, so the scalars of s start exactly
\* at the positions that no earlier lead byte covers.
Covered(s, i) ==
    \E j \in 1..(i - 1) :
        /\ i - j <= 3
        /\ Utf8CharWidth(s[j]) >= 2
        /\ Utf8Chunk(s, j).n > i - j

\* from_utf8(s).is_ok(): every scalar of s is well formed.
from_utf8(s) ==
    \A i \in 1..Len(s) : Covered(s, i) \/ Utf8Chunk(s, i).valid

\* U+FFFD REPLACEMENT CHARACTER in UTF-8
Replacement == <<239, 191, 189>>

\* What the scalar starting at i contributes to the lossy conversion: its
\* own bytes when well formed, one replacement character otherwise.
LossyPiece(s, i) ==
    IF Covered(s, i) THEN <<>>
    ELSE LET ch == Utf8Chunk(s, i)
         IN  IF ch.valid THEN SubSeq(s, i, i + ch.n - 1) ELSE Replacement

\* String::from_utf8_lossy(s).to_string()
from_utf8_lossy(s) == Concat([i \in 1..Len(s) |-> LossyPiece(s, i)])

\* ------------------------------------------------------------------------
\* deserialize
\* ------------------------------------------------------------------------
\* Result<(DhcpOption, &[u8]), DhcpError>, or the panic of a slice
\* primitive (split_at with mid > len).
Ok(option, rest) == [tag |-> "Ok", option |-> option, rest |-> rest]
Err(msg) == [tag |-> "Err", kind |-> "ParsingError", msg |-> msg]
Panic == [tag |-> "Panic"]

\* The diagnostic of each arm of the match on the option code.
ErrMsg(code) ==
    CASE code = 1 -> "Could not parse subnet mask"
      [] code = 2 -> "Could not parse time offset"
      [] code = 3 -> "Could not parse router"
      [] code = 4 -> "Could not parse time servers"
      [] code = 5 -> "Could not parse name servers"
      [] code = 6 -> "Could not parse domain name servers"
      [] code = 7 -> "Could not parse log servers"
      [] code = 8 -> "Could not parse cookie servers"
      [] code = 9 -> "Could not parse lpr servers"
      [] code = 10 -> "Could not parse impress servers"
      [] code = 11 -> "Could not parse resource location servers"
      [] code = 12 -> "Could not parse host name"
      [] code = 13 -> "Could not parse boot file size"
      [] code = 14 -> "Could not parse merit dump file"
      [] code = 15 -> "Could not parse domain name"
      [] code = 16 -> "Could not parse swap server"
      [] code = 17 -> "Could not parse root path"
      [] code = 18 -> "Could not parse extension path"
      [] code = 19 -> "Could not parse IP forwarding"
      [] code = 20 -> "Could not parse non-local source routing"
      [] code = 21 -> "Could not parse policy filter"
      [] code = 22 -> "Could not parse maximum datagram reassembly size"
      [] code = 23 -> "Could not parse default IP TTL"
      [] code = 24 -> "Could not parse path MTU aging timeout"
      [] code = 25 -> "Could not parse path MTU plateau table"
      [] code = 26 -> "Could not parse interface MTU"
      [] code = 27 -> "Could not parse all subnets are local"
      [] code = 28 -> "Could not parse broadcast address"
      [] code = 29 -> "Could not parse perform mask discovery"
      [] code = 30 -> "Could not parse mask supplier"
      [] code = 31 -> "Could not parse perform router discovery"
      [] code = 32 -> "Could not parse router solicitation address"
      [] code = 33 -> "Could not parse static route"
      [] code = 34 -> "Could not parse trailer encapsulation"
      [] code = 35 -> "Could not parse arp cache timeout"
      [] code = 36 -> "Could not parse ethernet encapsulation"
      [] code = 37 -> "Could not parse tcp default ttl"
      [] code = 38 -> "Could not parse tcp keepalive interval"
      [] code = 39 -> "Could not parse tcp keepalive garbage"
      [] code = 40 -> "Could not parse network information service domain domain"
      [] code = 41 -> "Could not parse network information service servers server address"
      [] code = 42 -> "Could not parse network time protocol servers server address"
      [] code = 43 -> "Could not parse vendor specific information"
      [] code = 44 -> "Could not parse netbios over tcp/ip name servers server address"
      [] code = 45 -> "Could not parse netbios over tcp/ip datagram distribution server address"
      [] code = 46 -> "Could not parse netbios over tcp/ip node type"
      [] code = 47 -> "Could not parse netbios over tcp/ip scope"
      [] code = 48 -> "Could not parse X Window System Font server"
      [] code = 49 -> "Could not parse X Window System Display Manager"
      [] code = 50 -> "Could not parse Requested IP Address"
      [] code = 51 -> "Could not parse IP Address Lease Time"
      [] code = 64 -> "Could not parse Network Information Service+ domain"
      [] code = 65 -> "Could not parse Network Information Service+ servers"
      [] code = 68 -> "Could not parse Mobile Ip Home Agent"
      [] code = 69 -> "Could not parse Simple Mail Transport Protocol Server servers"
      [] code = 70 -> "Could not parse Post Office Protocol Server servers"
      [] code = 71 -> "Could not parse Network News Transport Protocol Server servers"
      [] code = 72 -> "Could not parse Default World Wide Web Server servers"
      [] code = 73 -> "Could not parse Default Finger Server servers"
      [] code = 74 -> "Could not parse Default Internet Relay Chat Server servers"
      [] code = 75 -> "Could not parse StreetTalk Server servers"
      [] code = 76 -> "Could not parse StreetTalk Directory Assistance Server servers"

ParsingError(code) == Err(<<ErrMsg(code)>>)

\* The decimal digits of n, as `{}` formats an integer.
RECURSIVE ToDecimal(_)
ToDecimal(n) ==
    LET digit == [d \in 0..9 |->
                    CASE d = 0 -> "0" [] d = 1 -> "1" [] d = 2 -> "2"
                      [] d = 3 -> "3" [] d = 4 -> "4" [] d = 5 -> "5"
                      [] d = 6 -> "6" [] d = 7 -> "7" [] d = 8 -> "8"
                      [] d = 9 -> "9"]
    IN  IF n < 10 THEN <<digit[n]>> ELSE Append(ToDecimal(n \div 10), digit[n % 10])

\* Variant of U32FromBytes that reads the least significant byte first.
U32FromBytesLittleEndian(b) == <<b[4] * 256 + b[3], b[2] * 256 + b[1]>>

\* u32::from_be_bytes, and the sum of shifted bytes of code 2 (the four
\* shifted bytes occupy disjoint bit ranges, their sum cannot carry).
U32FromBytes(b) == <<b[1] * 256 + b[2], b[3] * 256 + b[4]>>

\* u16::from_be_bytes
U16FromBytes(b) == b[1] * 256 + b[2]

AddressFromBytes(b) == <<b[1], b[2], b[3], b[4]>>

\* Variant of PairFromBytes that takes the second address first.
PairFromBytesSwapped(b) ==
    <<<<b[5], b[6], b[7], b[8]>>, <<b[1], b[2], b[3], b[4]>>>>

PairFromBytes(b) == <<<<b[1], b[2], b[3], b[4]>>, <<b[5], b[6], b[7], b[8]>>>>

\* Codes 19 and 20 compare the value byte with 1; the other flags compare
\* it with 0.
BoolFromByte(code, b) == IF code \in {19, 20} THEN b = 1 ELSE b # 0

\* Size of the value of a fixed-size option.
FixedWidth(code) ==
    CASE code \in AddressCodes \cup U32Codes -> 4
      [] code \in U16Codes -> 2
      [] code \in U8Codes \cup BoolCodes \cup {NodeTypeCode} -> 1

FixedFromBytes(code, b) ==
    CASE code \in AddressCodes -> AddressFromBytes(b)
      [] code \in U32Codes -> U32FromBytes(b)
      [] code \in U16Codes -> U16FromBytes(b)
      [] code \in U8Codes -> b[1]
      [] code \in BoolCodes -> BoolFromByte(code, b[1])

\* Variant of DeserializeNoValue that returns the slice with the code byte
\* still in it.
DeserializeNoValuePeeked(code, data) ==
    Ok(DhcpOption(code, <<>>), <<code>> \o data)

\* Variant of DeserializeNoValue that takes the next byte for a length byte.
DeserializeNoValueLength(code, data) ==
    Ok(DhcpOption(code, <<>>), IF data = <<>> THEN data ELSE Tail(data))

\* Codes 0 and 255: the option is the code byte alone.
DeserializeNoValue(code, data) == Ok(DhcpOption(code, <<>>), data)

\* Codes 1, 2, 13, 16, 19, 20, 22-24, 26-32, 34-39: the buffer must hold
\* the length byte and the value; the length byte is read and not used.
DeserializeFixed(code, data) ==
    IF Len(data) < FixedWidth(code) + 1 THEN ParsingError(code)
    ELSE IF data = <<>> THEN ParsingError(code)
    ELSE LET rest == Tail(data)
             width == FixedWidth(code)
         IN  IF width > Len(rest) THEN Panic
             ELSE Ok(DhcpOption(code, FixedFromBytes(code, SubSeq(rest, 1, width))),
                     DropFirst(rest, width))

\* Codes 50 and 51: as above, and the length byte must be 4.
DeserializeFixedChecked(code, data) ==
    IF Len(data) < 5 THEN ParsingError(code)
    ELSE IF data = <<>> THEN ParsingError(code)
    ELSE LET len == Head(data)
             rest == Tail(data)
         IN  IF len # 4 THEN ParsingError(code)
             ELSE IF 4 > Len(rest) THEN Panic
             ELSE Ok(DhcpOption(code, FixedFromBytes(code, SubSeq(rest, 1, 4))),
                     DropFirst(rest, 4))

\* Variant of DeserializeNodeType that takes the node type from the low
\* four bits of the value byte and ignores the others.
DeserializeNodeTypeMasked(code, data) ==
    IF Len(data) < 2 THEN ParsingError(code)
    ELSE LET rest == Tail(data)
             b == rest[1] % 16
         IN  CASE b = 1 -> Ok(DhcpOption(code, "BNode"), DropFirst(rest, 1))
               [] b = 2 -> Ok(DhcpOption(code, "PNode"), DropFirst(rest, 1))
               [] b = 4 -> Ok(DhcpOption(code, "MNode"), DropFirst(rest, 1))
               [] b = 8 -> Ok(DhcpOption(code, "HNode"), DropFirst(rest, 1))
               [] OTHER -> ParsingError(code)

\* Code 46: one value byte, which must name a node type.
DeserializeNodeType(code, data) ==
    IF Len(data) < 2 THEN ParsingError(code)
    ELSE IF data = <<>> THEN ParsingError(code)
    ELSE LET rest == Tail(data)
         IN  IF 1 > Len(rest) THEN Panic
             ELSE LET b == rest[1]
                  IN  CASE b = 1 -> Ok(DhcpOption(code, "BNode"), DropFirst(rest, 1))
                        [] b = 2 -> Ok(DhcpOption(code, "PNode"), DropFirst(rest, 1))
                        [] b = 4 -> Ok(DhcpOption(code, "MNode"), DropFirst(rest, 1))
                        [] b = 8 -> Ok(DhcpOption(code, "HNode"), DropFirst(rest, 1))
                        [] OTHER -> ParsingError(code)

Addresses(bytes) ==
    LET chunks == ChunksExact(bytes, 4)
    IN  [i \in 1..Len(chunks) |-> AddressFromBytes(chunks[i])]

\* Codes 3-11: at least 5 bytes after the code, length a multiple of 4;
\* the value is split off without comparing the length with what remains.
DeserializeAddressList(code, data) ==
    IF Len(data) < 5 THEN ParsingError(code)
    ELSE IF data = <<>> THEN ParsingError(code)
    ELSE LET len == Head(data)
             rest == Tail(data)
         IN  IF len % 4 # 0 THEN ParsingError(code)
             ELSE IF len > Len(rest) THEN Panic
             ELSE Ok(DhcpOption(code, Addresses(SubSeq(rest, 1, len))),
                     DropFirst(rest, len))

\* Codes 41, 42, 44, 45, 65, 69-76: at least 5 bytes after the code, the
\* value must be available, length a multiple of 4.
DeserializeAddressListChecked(code, data) ==
    IF Len(data) < 5 THEN ParsingError(code)
    ELSE IF data = <<>> THEN ParsingError(code)
    ELSE LET len == Head(data)
             rest == Tail(data)
         IN  IF Len(rest) < len THEN ParsingError(code)
             ELSE IF len % 4 # 0 THEN ParsingError(code)
             ELSE IF len > Len(rest) THEN Panic
             ELSE Ok(DhcpOption(code, Addresses(SubSeq(rest, 1, len))),
                     DropFirst(rest, len))

\* Codes 48 and 49: at least 5 bytes after the code, the value must be
\* available; the length is not compared with a multiple of 4.
DeserializeAddressListUnaligned(code, data) ==
    IF Len(data) < 5 THEN ParsingError(code)
    ELSE IF data = <<>> THEN ParsingError(code)
    ELSE LET len == Head(data)
             rest == Tail(data)
         IN  IF Len(rest) < len THEN ParsingError(code)
             ELSE IF len > Len(rest) THEN Panic
             ELSE Ok(DhcpOption(code, Addresses(SubSeq(rest, 1, len))),
                     DropFirst(rest, len))

\* Variant of DeserializeMobileIpHomeAgent that requires one address, as
\* the arms of the other address lists do.
DeserializeMobileIpHomeAgentNonEmpty(code, data) ==
    DeserializeAddressListChecked(code, data)

\* Code 68: at least the length byte, the value must be available, length
\* a multiple of 4; length 0 is the empty list.
DeserializeMobileIpHomeAgent(code, data) ==
    IF Len(data) < 1 THEN ParsingError(code)
    ELSE IF data = <<>> THEN ParsingError(code)
    ELSE LET len == Head(data)
             rest == Tail(data)
         IN  IF Len(rest) < len THEN ParsingError(code)
             ELSE IF len % 4 # 0 THEN ParsingError(code)
             ELSE IF len # 0
             THEN IF len > Len(rest) THEN Panic
                  ELSE Ok(DhcpOption(code, Addresses(SubSeq(rest, 1, len))),
                          DropFirst(rest, len))
             ELSE Ok(DhcpOption(code, <<>>), rest)

Pairs(bytes) ==
    LET chunks == ChunksExact(bytes, 8)
    IN  [i \in 1..Len(chunks) |-> PairFromBytes(chunks[i])]

\* Code 21: at least 9 bytes after the code, the length compared with the
\* remaining byte count cast to u8, length a multiple of 8.
DeserializePolicyFilter(code, data) ==
    IF Len(data) < 9 THEN ParsingError(code)
    ELSE IF data = <<>> THEN ParsingError(code)
    ELSE LET len == Head(data)
             rest == Tail(data)
         IN  IF len > AsU8(Len(rest)) THEN ParsingError(code)
             ELSE IF len % 8 # 0 THEN ParsingError(code)
             ELSE IF len > Len(rest) THEN Panic
             ELSE Ok(DhcpOption(code, Pairs(SubSeq(rest, 1, len))),
                     DropFirst(rest, len))

\* Variant of DeserializeStaticRoute without the multiple-of-8 test.
DeserializeStaticRouteUnaligned(code, data) ==
    IF Len(data) < 9 THEN ParsingError(code)
    ELSE IF data = <<>> THEN ParsingError(code)
    ELSE LET len == Head(data)
             rest == Tail(data)
         IN  IF len > Len(rest) THEN Panic
             ELSE Ok(DhcpOption(code, Pairs(SubSeq(rest, 1, len))),
                     DropFirst(rest, len))

\* Code 33: at least 9 bytes after the code, length a multiple of 8; the
\* value is split off without comparing the length with what remains.
DeserializeStaticRoute(code, data) ==
    IF Len(data) < 9 THEN ParsingError(code)
    ELSE IF data = <<>> THEN ParsingError(code)
    ELSE LET len == Head(data)
             rest == Tail(data)
         IN  IF len % 8 # 0 THEN ParsingError(code)
             ELSE IF len > Len(rest) THEN Panic
             ELSE Ok(DhcpOption(code, Pairs(SubSeq(rest, 1, len))),
                     DropFirst(rest, len))

MtuSizes(bytes) ==
    LET chunks == ChunksExact(bytes, 2)
    IN  [i \in 1..Len(chunks) |-> U16FromBytes(chunks[i])]

\* Code 25: at least 3 bytes after the code; the value is split off
\* without comparing the length with what remains or with a multiple of 2.
DeserializePathMtuPlateauTable(code, data) ==
    IF Len(data) < 3 THEN ParsingError(code)
    ELSE IF data = <<>> THEN ParsingError(code)
    ELSE LET len == Head(data)
             rest == Tail(data)
         IN  IF len > Len(rest) THEN Panic
             ELSE Ok(DhcpOption(code, MtuSizes(SubSeq(rest, 1, len))),
                     DropFirst(rest, len))

\* Variant of DeserializeText that compares the length with the byte count
\* taken before the length byte was split off.
DeserializeTextOffByOne(code, data) ==
    IF Len(data) < 2 THEN ParsingError(code)
    ELSE LET len == Head(data)
             rest == Tail(data)
         IN  IF len > AsU8(Len(data)) THEN ParsingError(code)
             ELSE IF len > Len(rest) THEN Panic
             ELSE IF ~from_utf8(SubSeq(rest, 1, len)) THEN ParsingError(code)
             ELSE Ok(DhcpOption(code, SubSeq(rest, 1, len)), DropFirst(rest, len))

\* Codes 12, 14, 15, 17, 18: at least 2 bytes after the code, the length
\* compared with the remaining byte count cast to u8, the value valid
\* UTF-8.
DeserializeText(code, data) ==
    IF Len(data) < 2 THEN ParsingError(code)
    ELSE IF data = <<>> THEN ParsingError(code)
    ELSE LET len == Head(data)
             rest == Tail(data)
         IN  IF len > AsU8(Len(rest)) THEN ParsingError(code)
             ELSE IF len > Len(rest) THEN Panic
             ELSE IF ~from_utf8(SubSeq(rest, 1, len)) THEN ParsingError(code)
             ELSE Ok(DhcpOption(code, SubSeq(rest, 1, len)), DropFirst(rest, len))

\* Code 40: at least 2 bytes after the code, the value must be available;
\* the text is the lossy conversion of the value.
DeserializeTextLossy(code, data) ==
    IF Len(data) < 2 THEN ParsingError(code)
    ELSE IF data = <<>> THEN ParsingError(code)
    ELSE LET len == Head(data)
             rest == Tail(data)
         IN  IF Len(rest) < len THEN ParsingError(code)
             ELSE IF len > Len(rest) THEN Panic
             ELSE Ok(DhcpOption(code, from_utf8_lossy(SubSeq(rest, 1, len))),
                     DropFirst(rest, len))

\* Code 64: at least 2 bytes after the code; the value is split off
\* without comparing the length with what remains; lossy conversion.
DeserializeNisPlusDomain(code, data) ==
    IF Len(data) < 2 THEN ParsingError(code)
    ELSE IF data = <<>> THEN ParsingError(code)
    ELSE LET len == Head(data)
             rest == Tail(data)
         IN  IF len > Len(rest) THEN Panic
             ELSE Ok(DhcpOption(code, from_utf8_lossy(SubSeq(rest, 1, len))),
                     DropFirst(rest, len))

\* Codes 43 and 47: at least 2 bytes after the code, the value must be
\* available; the bytes are copied.
DeserializeBlob(code, data) ==
    IF Len(data) < 2 THEN ParsingError(code)
    ELSE IF data = <<>> THEN ParsingError(code)
    ELSE LET len == Head(data)
             rest == Tail(data)
         IN  IF Len(rest) < len THEN ParsingError(code)
             ELSE IF len > Len(rest) THEN Panic
             ELSE Ok(DhcpOption(code, SubSeq(rest, 1, len)), DropFirst(rest, len))

\* Variant of DeserializeUnknown that skips the option by its length byte.
DeserializeUnknownSkipped(code, data) ==
    IF data = <<>> \/ Head(data) > Len(Tail(data))
    THEN Err(<<"Unknown option code: ">> \o ToDecimal(code))
    ELSE Ok(DhcpOption(code, SubSeq(Tail(data), 1, Head(data))),
            DropFirst(Tail(data), Head(data)))

\* The default arm of the match.
DeserializeUnknown(code, data) ==
    Err(<<"Unknown option code: ">> \o ToDecimal(code))

\* Variant of NoOptionCode in which the code byte is read without a test
\* for the empty slice.
NoOptionCodeUnchecked == Panic

\* split_first on the empty slice: there is no code byte.
NoOptionCode == Err(<<"No option code found">>)

deserialize(input) ==
    IF input = <<>> THEN NoOptionCode
    ELSE LET code == Head(input)
             data == Tail(input)
         IN  CASE code \in {0, 255} -> DeserializeNoValue(code, data)
               [] code \in {1, 2, 13, 16, 19, 20, 22, 23, 24, 26, 27, 28, 29,
                            30, 31, 32, 34, 35, 36, 37, 38, 39}
                    -> DeserializeFixed(code, data)
               [] code \in 3..11 -> DeserializeAddressList(code, data)
               [] code \in {12, 14, 15, 17, 18} -> DeserializeText(code, data)
               [] code = 21 -> DeserializePolicyFilter(code, data)
               [] code = 25 -> DeserializePathMtuPlateauTable(code, data)
               [] code = 33 -> DeserializeStaticRoute(code, data)
               [] code = 40 -> DeserializeTextLossy(code, data)
               [] code \in {41, 42, 44, 45, 65} \cup (69..76)
                    -> DeserializeAddressListChecked(code, data)
               [] code \in {43, 47} -> DeserializeBlob(code, data)
               [] code = 46 -> DeserializeNodeType(code, data)
               [] code \in {48, 49} -> DeserializeAddressListUnaligned(code, data)
               [] code = 64 -> DeserializeNisPlusDomain(code, data)
               [] code = 68 -> DeserializeMobileIpHomeAgent(code, data)
               [] code \in {50, 51} -> DeserializeFixedChecked(code, data)
               [] OTHER -> DeserializeUnknown(code, data)

\* ------------------------------------------------------------------------
\* The values a caller encodes and the buffers it receives
\* ------------------------------------------------------------------------
\* The largest value length a length byte can state.
MaxValueLen == U8Mod - 1

SeqsUpTo(S, n) == UNION {[1..k -> S] : k \in 0..n}

Addrs == {<<192, 168, 0, 1>>, <<255, 255, 255, 0>>}
U32s == {<<0, 0>>, <<4660, 22136>>, <<65535, 65535>>}
U16s == {0, 576, 65535}
U8s == {0, 64, 255}
AddrPairs == {<<<<192, 168, 0, 1>>, <<255, 255, 255, 0>>>>,
              <<<<255, 255, 255, 0>>, <<192, 168, 0, 1>>>>}

\* n distinct addresses 10.0.x.y
LongAddrs(n) == [i \in 1..n |-> <<10, 0, i \div 256, i % 256>>]
LongPairs(n) == [i \in 1..n |-> <<<<10, 0, 0, i % 256>>, <<255, 255, i \div 256, 0>>>>]
LongMtus(n) == [i \in 1..n |-> 68 + i]

\* Lists of at most MaxList entries, the longest list a length byte can
\* describe, and the shortest it cannot.
AddrLists ==
    SeqsUpTo(Addrs, MaxList)
    \cup {LongAddrs(MaxValueLen \div 4), LongAddrs(MaxValueLen \div 4 + 1)}
PairLists ==
    SeqsUpTo(AddrPairs, MaxList)
    \cup {LongPairs(MaxValueLen \div 8), LongPairs(MaxValueLen \div 8 + 1)}
MtuLists ==
    SeqsUpTo({68, 1500}, MaxList)
    \cup {LongMtus(MaxValueLen \div 2), LongMtus(MaxValueLen \div 2 + 1)}

\* Strings: ASCII text of at most MaxText bytes, a two-byte scalar, and
\* the longest string a length byte can describe and the shortest it cannot.
Texts ==
    SeqsUpTo({97, 104}, MaxText)
    \cup {<<195, 169>>, Pattern(97, 0, MaxValueLen), Pattern(97, 0, MaxValueLen + 1)}
Blobs ==
    SeqsUpTo({0, 255}, MaxText)
    \cup {Pattern(1, 1, MaxValueLen), Pattern(1, 1, MaxValueLen + 1)}

PayloadsOf(code) ==
    CASE code \in {0, 255} -> {<<>>}
      [] code \in AddressCodes -> Addrs
      [] code \in U32Codes -> U32s
      [] code \in U16Codes -> U16s
      [] code \in U8Codes -> U8s
      [] code \in BoolCodes -> BOOLEAN
      [] code \in AddressListCodes -> AddrLists
      [] code \in PairListCodes -> PairLists
      [] code \in StringCodes -> Texts
      [] code \in BlobCodes -> Blobs
      [] code = MtuTableCode -> MtuLists
      [] code = NodeTypeCode -> NetBiosOverTcpIpNodeType

OptionValues == UNION {{DhcpOption(c, v) : v \in PayloadsOf(c)} : c \in SupportedCodes}

\* The options a caller encodes after the first one of a buffer.
FollowOptions ==
    {Pad, DhcpOption(1, <<255, 255, 255, 0>>), DhcpOption(12, <<97>>)}

\* Number of value bytes of an option.
ValueLen(option) ==
    IF option.code \in {0, 255} THEN 0 ELSE Len(SerializeValue(option))

\* The option's value fits the one-byte length field.
WithinLimits(option) == ValueLen(option) <= MaxValueLen

\* Bytes a caller appends after the encoded options: short ones, and long
\* ones around the point where their count no longer fits a u8.
TrailLens == (0..MaxTrail) \cup ((U8Mod - MaxText)..U8Mod)
Trailers == {Pattern(9, 1, n) : n \in TrailLens}

\* Raw buffers received from a peer: [code, length byte] followed by a
\* body that is shorter than, equal to or longer than the stated length.
ByteSamples == {0, 1, 2, 4, 8, 97, 128, 255}
BodyPatterns == {<<f, 1>> : f \in ByteSamples} \cup {<<255, 0>>}
LenBytes == (0..MaxLenByte) \cup {16, MaxValueLen}
BodyLens(len) ==
    {n \in {len - 4, len - 1, len, len + 1, U8Mod, U8Mod + len} : n >= 0}

RawBodies(lens, patterns) ==
    UNION {{<<len>> \o Pattern(p[1], p[2], n) : n \in BodyLens(len), p \in patterns}
           : len \in lens}

RawBuffers ==
    {<<>>}
    \cup {<<code>> : code \in Byte}
    \cup {<<code>> \o body :
            code \in SupportedCodes, body \in RawBodies(LenBytes, BodyPatterns)}
    \cup {<<code>> \o body :
            code \in Byte \ SupportedCodes, body \in RawBodies({0, 1}, {<<255, 0>>})}

\* ------------------------------------------------------------------------
\* The caller
\* ------------------------------------------------------------------------
VARIABLES
    pc,         \* "idle", "encoding", "decoding" or "failed"
    opts,       \* the options encoded into the buffer, in order
    trailer,    \* the bytes appended after the encoded options
    wire,       \* the buffer: what was encoded or received
    data,       \* the slice still to be decoded
    input,      \* the slice passed to the last deserialize call
    res,        \* the result of the last deserialize call
    decoded,    \* the options decoded so far, in order
    calls       \* deserialize calls made on this buffer

vars == <<pc, opts, trailer, wire, data, input, res, decoded, calls>>

NoResult == [tag |-> "None"]

\* One call more than the options encoded, so that a walk also reads what
\* follows the last option.
MaxCalls == MaxOpts + 1

Init ==
    /\ pc = "idle"
    /\ opts = <<>>
    /\ trailer = <<>>
    /\ wire = <<>>
    /\ data = <<>>
    /\ input = <<>>
    /\ res = NoResult
    /\ decoded = <<>>
    /\ calls = 0

\* The caller encodes one more option at the end of the buffer.
Serialize ==
    /\ pc \in {"idle", "encoding"}
    /\ Len(opts) < MaxOpts
    /\ \E option \in (IF opts = <<>> THEN OptionValues ELSE FollowOptions) :
        /\ opts' = Append(opts, option)
        /\ wire' = wire \o serialize(option)
    /\ pc' = "encoding"
    /\ UNCHANGED <<trailer, data, input, res, decoded, calls>>

\* The caller appends trailing bytes and hands the buffer to the decoder.
Send ==
    /\ pc = "encoding"
    /\ \E t \in Trailers :
        /\ trailer' = t
        /\ wire' = wire \o t
    /\ data' = wire'
    /\ pc' = "decoding"
    /\ UNCHANGED <<opts, input, res, decoded, calls>>

\* A raw buffer arrives from a peer.
Receive ==
    /\ pc = "idle"
    /\ \E buffer \in RawBuffers :
        /\ wire' = buffer
        /\ data' = buffer
    /\ pc' = "decoding"
    /\ UNCHANGED <<opts, trailer, input, res, decoded, calls>>

\* Variant of Deserialize whose decoder keeps its last successful result
\* and returns it again on the next call, whatever slice it is given.
DeserializeCached ==
    /\ pc = "decoding"
    /\ calls < MaxCalls
    /\ LET r == IF res.tag = "Ok" THEN res ELSE deserialize(data)
       IN  /\ res' = r
           /\ input' = data
           /\ calls' = calls + 1
           /\ IF r.tag = "Ok"
              THEN /\ data' = r.rest
                   /\ decoded' = Append(decoded, r.option)
                   /\ pc' = pc
              ELSE /\ pc' = "failed"
                   /\ UNCHANGED <<data, decoded>>
    /\ UNCHANGED <<opts, trailer, wire>>

\* One deserialize call on the slice still to be decoded; on success the
\* caller continues with the returned remainder.
Deserialize ==
    /\ pc = "decoding"
    /\ calls < MaxCalls
    /\ LET r == deserialize(data)
       IN  /\ res' = r
           /\ input' = data
           /\ calls' = calls + 1
           /\ IF r.tag = "Ok"
              THEN /\ data' = r.rest
                   /\ decoded' = Append(decoded, r.option)
                   /\ pc' = pc
              ELSE /\ pc' = "failed"
                   /\ UNCHANGED <<data, decoded>>
    /\ UNCHANGED <<opts, trailer, wire>>

Next ==
    \/ Serialize
    \/ Send
    \/ Receive
    \/ Deserialize

Spec == Init /\ [][Next]_vars

TypeOK ==
    /\ pc \in {"idle", "encoding", "decoding", "failed"}
    /\ calls \in 0..MaxCalls
    /\ Len(opts) <= MaxOpts
    /\ res.tag \in {"None", "Ok", "Err", "Panic"}

\* ------------------------------------------------------------------------
\* Properties
\* ------------------------------------------------------------------------
Called == res.tag # "None"

IsParsingError(r) == r.tag = "Err" /\ r.kind = "ParsingError"

SameOption(a, b) == a.code = b.code /\ a.val = b.val

\* r is Ok((option, rest))
Returned(r, option, rest) ==
    r.tag = "Ok" /\ SameOption(r.option, option) /\ r.rest = rest

\* serialize(o1) ++ ... ++ serialize(on)
SerializeAll(os) == Concat([i \in 1..Len(os) |-> serialize(os[i])])

\* The first call decoded a buffer holding one encoded option within the
\* length limits (followed by the trailer).
OneOptionDecoded ==
    calls = 1 /\ Len(opts) = 1 /\ WithinLimits(opts[1])

\* The option has a payload that can be told from no payload: a list,
\* string or blob option holds at least one entry or byte.
HasEntries(option) ==
    option.code \in AddressListCodes \cup PairListCodes \cup StringCodes
                    \cup BlobCodes \cup {MtuTableCode}
    => option.val # <<>>

\* C1: Round trip. For every option v whose encoded value fits in 255
\* bytes, empty lists, strings and blobs included,
\* deserialize(serialize(v)) returns Ok((v, [])).
C1_RoundTrip ==
    (OneOptionDecoded /\ trailer = <<>>) => Returned(res, opts[1], <<>>)

\* What does hold of the round trip: it succeeds for every option within
\* the length limits whose list, string or blob is not empty, and for
\* MobileIpHomeAgent with the empty list.
RoundTripNonEmpty ==
    (/\ OneOptionDecoded
     /\ trailer = <<>>
     /\ HasEntries(opts[1]) \/ opts[1].code = 68)
    => Returned(res, opts[1], <<>>)

\* C2: Remainder preservation. For every option v within the length
\* limits and every trailing byte sequence t of any length (250 bytes and
\* more included), deserialize(serialize(v) ++ t) returns Ok((v, t)).
\* Stated for the options with a non-empty list, string or blob; the empty
\* ones are the case of C1.
C2_RemainderPreserved ==
    (OneOptionDecoded /\ HasEntries(opts[1]))
    => Returned(res, opts[1], trailer)

\* The buffer holds the code alone, or its length byte states more value
\* bytes than follow it.
Truncated(buffer) ==
    \/ Len(buffer) = 1
    \/ Len(buffer) >= 2 /\ buffer[2] > Len(buffer) - 2

\* C3: Truncated input. For every supported code other than 0 and 255,
\* deserialize on a buffer without a length byte, or whose length byte
\* states more value bytes than remain, returns Err(ParsingError) and does
\* not panic.
C3_TruncatedFails ==
    (/\ Called
     /\ input # <<>>
     /\ input[1] \in SupportedCodes \ {0, 255}
     /\ Truncated(input))
    => IsParsingError(res)

\* C4: Walking an options area. Starting from serialize(o1) ++ ... ++
\* serialize(on), each option within the length limits, the i-th
\* deserialize call on the previous remainder returns oi and leaves the
\* remainder at the first byte of serialize(o(i+1)); the n-th leaves it
\* empty.  Stated for the options with a non-empty list, string or blob;
\* the empty ones are the case of C1.
C4_Walk ==
    (/\ calls \in 1..Len(opts)
     /\ trailer = <<>>
     /\ \A i \in 1..Len(opts) : WithinLimits(opts[i]) /\ HasEntries(opts[i]))
    => /\ Returned(res, opts[calls], SerializeAll(SubSeq(opts, calls + 1, Len(opts))))
       /\ Len(decoded) = calls
       /\ \A i \in 1..calls : SameOption(decoded[i], opts[i])

FixedSizeCodes ==
    {1, 16, 28, 32, 50} \cup {2, 24, 35, 38, 51} \cup {13, 22, 26}
    \cup {19, 20, 23, 27, 29, 30, 31, 34, 36, 37, 39, 46}

\* C5: Exact length of fixed-size options. For every fixed-size option,
\* deserialize returns Err(ParsingError) whenever the length byte differs
\* from the option's size (4, 2 or 1), whatever follows.
C5_ExactLength ==
    (/\ Called
     /\ Len(input) >= 2
     /\ input[1] \in FixedSizeCodes
     /\ input[2] # FixedWidth(input[1]))
    => IsParsingError(res)

\* C6: Multiple of 4. For every address-list option (codes 3-11, 41, 42,
\* 44, 45, 48, 49, 65, 68-76), deserialize on a buffer whose length byte is
\* not divisible by 4 returns Err(ParsingError), also when that many value
\* bytes are available.
C6_MultipleOf4 ==
    (/\ Called
     /\ Len(input) >= 2
     /\ input[1] \in (3..11) \cup {41, 42, 44, 45, 48, 49, 65} \cup (68..76)
     /\ input[2] % 4 # 0)
    => IsParsingError(res)

\* C7: Multiple of 8. For PolicyFilter (code 21) and StaticRoute (code
\* 33), deserialize on a buffer whose length byte is not divisible by 8
\* returns Err(ParsingError), also when that many value bytes are
\* available.
C7_MultipleOf8 ==
    (/\ Called
     /\ Len(input) >= 2
     /\ input[1] \in {21, 33}
     /\ input[2] % 8 # 0)
    => IsParsingError(res)

\* A StaticRoute buffer whose length byte is not a multiple of 8, with
\* that many value bytes present, was rejected.
C7_Witness ==
    /\ Called
    /\ Len(input) >= 10
    /\ input[1] = 33
    /\ input[2] % 8 # 0
    /\ input[2] <= Len(input) - 2
    /\ IsParsingError(res)

UnknownCodes == (52..63) \cup {66, 67} \cup (77..254)

DigitValue(d) ==
    CASE d = "0" -> 0 [] d = "1" -> 1 [] d = "2" -> 2 [] d = "3" -> 3
      [] d = "4" -> 4 [] d = "5" -> 5 [] d = "6" -> 6 [] d = "7" -> 7
      [] d = "8" -> 8 [] d = "9" -> 9

\* The number written by a sequence of one to three decimal digits.
DecimalValue(ds) ==
    CASE Len(ds) = 1 -> DigitValue(ds[1])
      [] Len(ds) = 2 -> DigitValue(ds[1]) * 10 + DigitValue(ds[2])
      [] Len(ds) = 3 ->
            DigitValue(ds[1]) * 100 + DigitValue(ds[2]) * 10 + DigitValue(ds[3])

\* C8: Unknown tag rejection. deserialize on a non-empty buffer whose
\* first byte is in 52-63, 66, 67 or 77-254 returns Err(ParsingError) with
\* the message "Unknown option code: <tag>", whatever follows; the option
\* is not skipped by its length byte.
C8_UnknownRejected ==
    (Called /\ input # <<>> /\ input[1] \in UnknownCodes)
    => /\ IsParsingError(res)
       /\ Len(res.msg) \in 2..4
       /\ res.msg[1] = "Unknown option code: "
       /\ res.msg[2] # "0"
       /\ DecimalValue(Tail(res.msg)) = input[1]

\* An unknown code followed by a length byte and that many bytes was
\* rejected.
C8_Witness ==
    /\ Called
    /\ Len(input) >= 3
    /\ input[1] = 200
    /\ input[2] >= 1
    /\ input[2] <= Len(input) - 2
    /\ IsParsingError(res)

\* C9: Pad and End. For every byte sequence t, deserialize([0] ++ t)
\* returns Ok((Pad, t)) and deserialize([255] ++ t) returns Ok((End, t)):
\* one byte is consumed and the next is not read as a length.
C9_PadEnd ==
    (Called /\ input # <<>>)
    => /\ input[1] = 0 => Returned(res, Pad, Tail(input))
       /\ input[1] = 255 => Returned(res, End, Tail(input))

\* Pad was decoded from a buffer in which bytes follow the code.
C9_Witness ==
    /\ Called
    /\ Len(input) >= 3
    /\ input[1] = 0
    /\ res.tag = "Ok"
    /\ Len(res.rest) = Len(input) - 1

\* C10: Boolean decoding. For every boolean option (codes 19, 20, 27, 29,
\* 30, 31, 34, 36, 39), deserialize([code, 1, b] ++ t) yields the option
\* with value true for every nonzero b and false only for b = 0.
C10_BooleanDecoding ==
    (/\ Called
     /\ Len(input) >= 3
     /\ input[1] \in {19, 20, 27, 29, 30, 31, 34, 36, 39}
     /\ input[2] = 1)
    => /\ res.tag = "Ok"
       /\ res.option.code = input[1]
       /\ res.option.val = (input[3] # 0)

\* The value bytes a buffer's length byte states, when that many follow.
ValueAvailable(buffer) ==
    Len(buffer) >= 2 /\ buffer[2] <= Len(buffer) - 2

ValueBytes(buffer) == SubSeq(buffer, 3, 2 + buffer[2])

\* C11: UTF-8 validation. For every text option (codes 12, 14, 15, 17,
\* 18, 40, 64), deserialize returns Err(ParsingError) when the value bytes
\* are not valid UTF-8; no string with replaced bytes is returned.
C11_Utf8Validated ==
    (/\ Called
     /\ input # <<>>
     /\ input[1] \in {12, 14, 15, 17, 18, 40, 64}
     /\ ValueAvailable(input)
     /\ ~from_utf8(ValueBytes(input)))
    => IsParsingError(res)

\* C12: List options reject length 0. For every address-list option other
\* than MobileIpHomeAgent (codes 3-11, 41, 42, 44, 45, 48, 49, 65, 69-76)
\* and the pair-list options (codes 21, 33), deserialize returns
\* Err(ParsingError) when the length byte is 0, however many bytes follow
\* it; no empty list is returned.
C12_EmptyListRejected ==
    (/\ Called
     /\ Len(input) >= 2
     /\ input[1] \in (3..11) \cup {41, 42, 44, 45, 48, 49, 65} \cup (69..76)
                     \cup {21, 33}
     /\ input[2] = 0)
    => IsParsingError(res)

\* C13: Minimum length 1. For codes 12, 14, 17, 18 and 47, deserialize
\* returns Err(ParsingError) when the length byte is 0, however many bytes
\* follow it; no empty string or blob is returned.
C13_EmptyValueRejected ==
    (/\ Called
     /\ Len(input) >= 2
     /\ input[1] \in {12, 14, 17, 18, 47}
     /\ input[2] = 0)
    => IsParsingError(res)

\* C14: Vendor-specific information is a blob of any length from 0 to
\* 255. deserialize([43, n] ++ value ++ t), value of n bytes, returns
\* Ok((VendorSpecificInformation(value), t)), the buffer [43, 0] included.
C14_VendorBlob ==
    (/\ Called
     /\ input # <<>>
     /\ input[1] = 43
     /\ ValueAvailable(input))
    => Returned(res, DhcpOption(43, ValueBytes(input)),
                DropFirst(input, 2 + input[2]))

\* What does hold of code 43: once a byte follows the length byte, the
\* stated number of value bytes is copied and the rest returned.
VendorBlobFollowed ==
    (/\ Called
     /\ Len(input) >= 3
     /\ input[1] = 43
     /\ ValueAvailable(input))
    => Returned(res, DhcpOption(43, ValueBytes(input)),
                DropFirst(input, 2 + input[2]))

\* C15: Zero-length MobileIpHomeAgent. For every byte sequence t, the
\* empty one included, deserialize([68, 0] ++ t) returns
\* Ok((MobileIpHomeAgent([]), t)): two bytes are consumed.
C15_EmptyMobileIpHomeAgent ==
    (/\ Called
     /\ Len(input) >= 2
     /\ input[1] = 68
     /\ input[2] = 0)
    => Returned(res, DhcpOption(68, <<>>), DropFirst(input, 2))

\* [68, 0] followed by other bytes was decoded to the empty list.
C15_Witness ==
    /\ Called
    /\ Len(input) >= 3
    /\ input[1] = 68
    /\ input[2] = 0
    /\ res.tag = "Ok"
    /\ res.option.val = <<>>
    /\ Len(res.rest) = Len(input) - 2

\* The node type the spec assigns to a value byte.
NodeTypeOfByte(b) ==
    CASE b = 1 -> "BNode"
      [] b = 2 -> "PNode"
      [] b = 4 -> "MNode"
      [] b = 8 -> "HNode"

\* C16: NetBIOS node type. deserialize([46, 1, b] ++ t) returns
\* Ok((NetBiosOverTcpIpNodeType(n), t)) with n = BNode, PNode, MNode,
\* HNode for b = 1, 2, 4, 8 and Err(ParsingError) for every other b;
\* serialize writes the value bytes 1, 2, 4, 8 for BNode, PNode, MNode,
\* HNode.
C16_NodeType ==
    /\ (/\ Called
        /\ Len(input) >= 3
        /\ input[1] = 46
        /\ input[2] = 1)
       => IF input[3] \in {1, 2, 4, 8}
          THEN Returned(res, DhcpOption(46, NodeTypeOfByte(input[3])),
                        DropFirst(input, 3))
          ELSE IsParsingError(res)
    /\ (/\ pc = "encoding"
        /\ Len(opts) = 1
        /\ opts[1].code = 46)
       => /\ Len(wire) = 3
          /\ wire[1] = 46
          /\ wire[2] = 1
          /\ wire[3] \in {1, 2, 4, 8}
          /\ NodeTypeOfByte(wire[3]) = opts[1].val

\* [46, 1, 2] followed by other bytes was decoded to PNode.
C16_Witness ==
    /\ Called
    /\ Len(input) >= 4
    /\ input[1] = 46
    /\ input[2] = 1
    /\ input[3] = 2
    /\ res.tag = "Ok"
    /\ res.option.val = "PNode"
    /\ res.rest = DropFirst(input, 3)

\* The number of value bytes the spec gives for an option: 4 for
\* addresses and 32-bit integers, 2 for 16-bit integers, 1 for bytes,
\* flags and node type, 4 per address, 8 per address pair, 2 per MTU size,
\* the byte count of strings and blobs.
EncodedLength(option) ==
    LET c == option.code
        v == option.val
    IN  CASE c \in {0, 255} -> 0
          [] c \in AddressCodes \cup U32Codes -> 4
          [] c \in U16Codes -> 2
          [] c \in U8Codes \cup BoolCodes \cup {NodeTypeCode} -> 1
          [] c \in AddressListCodes -> 4 * Len(v)
          [] c \in PairListCodes -> 8 * Len(v)
          [] c = MtuTableCode -> 2 * Len(v)
          [] c \in StringCodes \cup BlobCodes -> Len(v)

\* The caller has encoded one option and nothing else into the buffer.
OneOptionEncoded == pc = "encoding" /\ Len(opts) = 1

\* C17: Encoded wire format. For every option v other than Pad and End
\* whose value is at most 255 bytes, serialize(v) is [code(v), L] ++ value
\* with L the number of value bytes that follow, so that
\* len(serialize(v)) = 2 + L; serialize(Pad) = [0], serialize(End) = [255].
C17_WireFormat ==
    OneOptionEncoded
    => /\ opts[1].code = 0 => wire = <<0>>
       /\ opts[1].code = 255 => wire = <<255>>
       /\ (opts[1].code \notin {0, 255} /\ EncodedLength(opts[1]) <= 255)
          => /\ Len(wire) >= 2
             /\ wire[1] = opts[1].code
             /\ wire[2] = EncodedLength(opts[1])
             /\ Len(wire) = 2 + wire[2]
             /\ SubSeq(wire, 3, Len(wire)) = SerializeValue(opts[1])

\* A list of the largest size a length byte can state was encoded.
C17_Witness ==
    /\ OneOptionEncoded
    /\ opts[1].code = 3
    /\ EncodedLength(opts[1]) = 252
    /\ wire[2] = 252
    /\ Len(wire) = 254

\* C18: Encoding cannot fail. serialize returns a byte sequence for every
\* option, also for lists, strings and blobs whose value exceeds 255
\* bytes: the code, a length byte and all the value bytes.
C18_EncodingTotal ==
    OneOptionEncoded
    => /\ \A i \in 1..Len(wire) : wire[i] \in Byte
       /\ wire[1] = opts[1].code
       /\ Len(wire) = IF opts[1].code \in {0, 255} THEN 1
                      ELSE 2 + EncodedLength(opts[1])

\* A string of 256 bytes was encoded.
C18_Witness ==
    /\ OneOptionEncoded
    /\ opts[1].code = 12
    /\ EncodedLength(opts[1]) > 255
    /\ Len(wire) = 2 + EncodedLength(opts[1])

\* s is the slice of w that ends where w ends.
IsSuffix(s, w) ==
    Len(s) <= Len(w) /\ s = SubSeq(w, Len(w) - Len(s) + 1, Len(w))

C20_BytesConsumed ==
    (/\ Called
     /\ res.tag = "Ok"
     /\ input[1] \notin {0, 255})
    => /\ Len(input) >= 2
       /\ Len(input) >= 2 + input[2]
       /\ res.rest = DropFirst(input, 2 + input[2])

\* C21: PathMtuPlateauTable length is a multiple of 2. deserialize of
\* code 25 returns Err(ParsingError) when the length byte is odd and drops
\* no trailing value byte; for an even length byte L with L value bytes
\* present it returns exactly L / 2 sizes.
C21_MtuTableEven ==
    (/\ Called
     /\ Len(input) >= 2
     /\ input[1] = 25)
    => /\ input[2] % 2 = 1 => IsParsingError(res)
       /\ (input[2] % 2 = 0 /\ input[2] >= 2 /\ ValueAvailable(input))
          => /\ res.tag = "Ok"
             /\ res.option.code = 25
             /\ Len(res.option.val) = input[2] \div 2

\* The 16-bit number written by two bytes, most significant first.
BigEndian16(hi, lo) == hi * 256 + lo

\* The 32-bit number written by the four bytes of s from position i, most
\* significant first, as its two 16-bit halves.
BigEndian32(s, i) ==
    <<BigEndian16(s[i], s[i + 1]), BigEndian16(s[i + 2], s[i + 3])>>

\* The value bytes of buffer s, which start after the code and the length
\* byte, write the integer value v of an option of the given code.
WritesInteger(s, code, v) ==
    CASE code \in {2, 24, 35, 38, 51} ->
            /\ v = BigEndian32(s, 3)
            /\ v[1] \in 0..65535
            /\ v[2] \in 0..65535
      [] code \in {13, 22, 26} ->
            /\ v = BigEndian16(s[3], s[4])
            /\ v \in 0..65535
      [] code = 25 ->
            \A k \in 1..Len(v) :
                /\ v[k] = BigEndian16(s[2 * k + 1], s[2 * k + 2])
                /\ v[k] \in 0..65535

IntegerCodes == {2, 24, 35, 38, 51} \cup {13, 22, 26} \cup {25}

\* C22: Big-endian integers. For the 32-bit integer options (codes 2, 24,
\* 35, 38, 51), the 16-bit integer options (codes 13, 22, 26) and every
\* entry of PathMtuPlateauTable (code 25), serialize writes the value most
\* significant byte first and deserialize computes the sum of
\* byte_i * 256^(N-1-i) over the N value bytes, without overflow.
C22_BigEndian ==
    /\ (/\ Called
        /\ res.tag = "Ok"
        /\ input[1] \in IntegerCodes)
       => /\ res.option.code = input[1]
          /\ WritesInteger(input, input[1], res.option.val)
    /\ (OneOptionEncoded /\ opts[1].code \in IntegerCodes)
       => WritesInteger(wire, opts[1].code, opts[1].val)

\* [2, 4, 255, 255, 255, 255] was decoded to TimeOffset(4294967295).
C22_Witness ==
    /\ Called
    /\ input = <<2, 4, 255, 255, 255, 255>>
    /\ res.tag = "Ok"
    /\ res.option.val = <<65535, 65535>>

\* The value bytes of buffer s write the pairs of v: chunk k holds pair k,
\* first address first.
PairsWritten(s, v) ==
    \A k \in 1..Len(v) :
        /\ v[k][1] = SubSeq(s, 8 * k - 5, 8 * k - 2)
        /\ v[k][2] = SubSeq(s, 8 * k - 1, 8 * k + 2)

\* C23: Pair ordering. For PolicyFilter (code 21) and StaticRoute (code
\* 33), serialize writes for each pair the 4 octets of the first address,
\* then the 4 octets of the second, pairs in list order; deserialize maps
\* the k-th 8-byte chunk of the value to the k-th pair (bytes 0..3, bytes
\* 4..7).
C23_PairOrder ==
    /\ (/\ Called
        /\ res.tag = "Ok"
        /\ input[1] \in {21, 33})
       => /\ res.option.code = input[1]
          /\ Len(res.option.val) = input[2] \div 8
          /\ PairsWritten(input, res.option.val)
    /\ (OneOptionEncoded /\ opts[1].code \in {21, 33})
       => /\ Len(wire) = 2 + 8 * Len(opts[1].val)
          /\ PairsWritten(wire, opts[1].val)

\* A value of two different pairs, each of two different addresses, was
\* decoded.
C23_Witness ==
    /\ Called
    /\ input # <<>>
    /\ input[1] = 21
    /\ res.tag = "Ok"
    /\ Len(res.option.val) = 2
    /\ res.option.val[1] # res.option.val[2]
    /\ res.option.val[1][1] # res.option.val[1][2]

\* C24: Empty input. deserialize on the empty byte sequence returns
\* Err(ParsingError("No option code found")) and does not panic.
C24_EmptyInput ==
    (Called /\ input = <<>>)
    => /\ IsParsingError(res)
       /\ res.msg = <<"No option code found">>

\* The empty remainder of a buffer was passed to deserialize and rejected.
C24_Witness ==
    /\ Called
    /\ input = <<>>
    /\ wire # <<>>
    /\ calls >= 2
    /\ res.tag = "Err"

\* The buffer cut after the value its length byte states.
DeclaredExtent(buffer) == SubSeq(buffer, 1, 2 + buffer[2])

\* Two results agree: both are failures, or both are the same option.
SameOutcome(r1, r2) ==
    IF r1.tag = "Ok"
    THEN r2.tag = "Ok" /\ SameOption(r1.option, r2.option)
    ELSE r2.tag # "Ok"

\* C25: Independence from trailing bytes. Two buffers that agree on the
\* code, on the length byte L and on the first L value bytes, both holding
\* at least L bytes after the length byte, either both fail or both
\* decode to the same option; what follows the option's declared extent
\* changes only the remainder.  Stated for a buffer and the buffer cut
\* after its declared extent.
C25_TrailingIndependence ==
    (/\ Called
     /\ input # <<>>
     /\ input[1] \in SupportedCodes \ {0, 255}
     /\ ValueAvailable(input))
    => SameOutcome(res, deserialize(DeclaredExtent(input)))

\* C26: Decoded values re-encode and re-decode to themselves. Whenever
\* deserialize(b) returns Ok((v, r)), deserialize(serialize(v)) returns
\* Ok((v, [])).
C26_DecodedReencodes ==
    (Called /\ res.tag = "Ok")
    => Returned(deserialize(serialize(res.option)), res.option, <<>>)

\* C27: Progress of a decode loop. Every successful deserialize call
\* returns a remainder that is a proper suffix of its input, at least one
\* byte shorter, so a caller that keeps calling deserialize on the
\* remainder makes at most len(buffer) successful calls.
C27_Progress ==
    /\ (Called /\ res.tag = "Ok")
       => /\ Len(res.rest) < Len(input)
          /\ IsSuffix(res.rest, input)
    /\ pc \in {"decoding", "failed"}
       => /\ Len(decoded) + Len(data) <= Len(wire)
          /\ IsSuffix(data, wire)

\* Two calls in a row succeeded, each on a shorter slice.
C27_Witness ==
    /\ calls = 2
    /\ Len(decoded) = 2
    /\ res.tag = "Ok"
    /\ Len(data) < Len(input)
    /\ Len(input) < Len(wire)

\* C28: Decoded options respect the encode size limit. Every option
\* returned by a successful deserialize has an encoded value of at most
\* 255 bytes (at most 63 addresses, 31 address pairs, 127 MTU sizes, 255
\* bytes of string or blob), so that serialize of a decoded option does
\* not wrap its length byte.
C28_DecodedWithinLimit ==
    (Called /\ res.tag = "Ok")
    => /\ EncodedLength(res.option) <= 255
       /\ res.option.code \notin {0, 255}
          => serialize(res.option)[2] = EncodedLength(res.option)

ListCodes ==
    AddressListCodes \cup PairListCodes \cup StringCodes \cup BlobCodes
    \cup {MtuTableCode}

\* C29: Length byte wraps modulo 256. For a list, string or blob option
\* whose value is N > 255 bytes, serialize writes the length byte
\* N mod 256 followed by all N value bytes (2 + N bytes), so the length
\* byte differs from the number of value bytes.
C29_LengthWraps ==
    (/\ OneOptionEncoded
     /\ opts[1].code \in ListCodes
     /\ EncodedLength(opts[1]) > 255)
    => /\ Len(wire) = 2 + EncodedLength(opts[1])
       /\ wire[2] = EncodedLength(opts[1]) % 256
       /\ wire[2] # Len(wire) - 2
       /\ SubSeq(wire, 3, Len(wire)) = SerializeValue(opts[1])

\* Router with 64 addresses was encoded with length byte 0 and 256 value
\* bytes.
C29_Witness ==
    /\ OneOptionEncoded
    /\ opts[1].code = 3
    /\ Len(opts[1].val) = 64
    /\ wire[2] = 0
    /\ Len(wire) = 258

\* C30: The 8-bit truncated availability check is panic-safe. For codes
\* 12, 14, 15, 17, 18 and 21, which compare the length byte with the
\* remaining byte count truncated to 8 bits, deserialize never panics and
\* reads nothing beyond the buffer, whatever the input's length: when the
\* check passes, the length byte is at most the number of bytes that
\* remain.
C30_TruncatedCheckSafe ==
    (/\ Called
     /\ input # <<>>
     /\ input[1] \in {12, 14, 15, 17, 18, 21})
    => /\ res.tag \in {"Ok", "Err"}
       /\ res.tag = "Ok"
          => /\ ValueAvailable(input)
             /\ res.rest = DropFirst(input, 2 + input[2])

\* A buffer of 256 bytes or more after the length byte, whose count
\* truncates to less than the length byte, was rejected without a panic.
C30_Witness ==
    /\ Called
    /\ Len(input) >= 258
    /\ input[1] = 12
    /\ input[2] > (Len(input) - 2) % 256
    /\ input[2] <= Len(input) - 2
    /\ res.tag = "Err"

====
